---- MODULE Spec2Model ----
(***************************************************************************)
(* BIO span decoder and PII sensitivity filter of src/src/predict.py.      *)
(*                                                                         *)
(* bio_to_spans is one pass over zip(offsets, label_ids); every iteration  *)
(* of its loop is one action, chosen by the branch the iteration takes.    *)
(* The caller's filter loop (main) is one action per decoded span.         *)
(*                                                                         *)
(* Representation                                                          *)
(*  - a label string is the sequence of its dash-free segments:            *)
(*    "B-CITY" is <<"B","CITY">>, "O" is <<"O">>;                          *)
(*  - a confidence is a number of hundredths: 100 is the float 1.0;        *)
(*  - Python's None is NoneLabel for current_label, NoOffset for           *)
(*    current_start / current_end, and NoLogits for logits.                *)
(***************************************************************************)
EXTENDS Integers, Sequences, FiniteSets

VARIABLES
    text,                  \* argument: the utterance's text
    offsets,               \* argument: sequence of <<start, end>>
    label_ids,             \* argument: sequence of label ids
    logits,                \* argument: NoLogits, or one row per token
    confidence_threshold,  \* args.confidence_threshold
    idx,                   \* number of zip items consumed so far
    spans,                 \* bio_to_spans: spans
    current_label,         \* bio_to_spans: current_label
    current_start,         \* bio_to_spans: current_start
    current_end,           \* bio_to_spans: current_end
    current_confidence,    \* bio_to_spans: current_confidence
    pc,                    \* "loop" | "filter" | "done" | "error"
    raised,                \* "none" | "IndexError" | "ValueError"
    k,                     \* main: number of decoded spans filtered so far
    ents,                  \* main: ents
    pending,               \* main: the utterances of the input file not read yet
    results,               \* main: results, in the order the utterances were stored
    cur_tokens,            \* history: zip positions merged into the open span
    span_tokens,           \* history: for each emitted span, its zip positions
    location,              \* generate_data: random.choice(LOCATIONS)
    city,                  \* generate_data: random.choice(CITIES)
    name,                  \* generate_data: f"{first} {last}"
    choice,                \* generate_data: which template random.choice picks
    sample,                \* generate_data: the returned {"text", "entities"}
    placed                 \* history: where the template put each value

vars == <<text, offsets, label_ids, logits, confidence_threshold, idx, spans,
          current_label, current_start, current_end, current_confidence,
          pc, raised, k, ents, pending, results, cur_tokens, span_tokens,
          location, city, name, choice, sample, placed>>

generator == <<location, city, name, choice, sample, placed>>

batch == <<pending, results>>
inputs == <<text, offsets, label_ids, logits, confidence_threshold>>
decoder == <<spans, current_label, current_start, current_end,
             current_confidence, cur_tokens, span_tokens>>

----------------------------------------------------------------------------
(* Bounds and input alphabets *)

MaxLen == 3

\* the float 1.0, in hundredths
One == 100

\* None in current_start / current_end
NoOffset == -1

NoneLabel == <<>>

NoLogits == [present |-> FALSE, rows |-> <<>>]

\* utterance texts of ten characters
Texts == {"ring alice", "mail bobby"}

\* (0,0) is the structural marker; (4,4) is a zero-length pair that is not
\* the marker; (0,4) and (5,10) are ordinary tokens.
OffsetPairs == {<<0, 0>>, <<0, 4>>, <<5, 10>>, <<4, 4>>}

\* offsets of the calls that pass logits
ScoredOffsetPairs == {<<0, 0>>, <<0, 4>>, <<5, 10>>}

ConfLevels == {30, 50}

\* 0.5, and 1.1, which is outside [0,1]
Thresholds == {50, 110}

----------------------------------------------------------------------------
(* Label Registry (labels.py) *)

EntityTypes ==
    <<"PERSON_NAME", "PHONE", "EMAIL", "CREDIT_CARD", "CITY", "LOCATION", "DATE">>

\* ids 0..14 are O and the B-/I- tags of the seven entity types; ids 15 and
\* 16 are registry strings that are not BIO tags: "X-CITY" and "JUNK".
ID2LABEL ==
    [i \in 0..16 |->
        IF i = 0 THEN <<"O">>
        ELSE IF i = 15 THEN <<"X", "CITY">>
        ELSE IF i = 16 THEN <<"JUNK">>
        ELSE IF i % 2 = 1 THEN <<"B", EntityTypes[(i + 1) \div 2]>>
        ELSE <<"I", EntityTypes[i \div 2]>>]

label_is_pii(lab) ==
    lab \in {<<"PERSON_NAME">>, <<"PHONE">>, <<"EMAIL">>, <<"CREDIT_CARD">>}

\* width of one score row: one score per registry label
NumLabels == Cardinality(DOMAIN ID2LABEL)

\* label ids the inputs are drawn from:
\* O, B-PHONE, I-PHONE, B-CITY, I-CITY, "X-CITY", "JUNK", and an unknown id
LabelIds == {0, 3, 4, 9, 10, 15, 16, 99}

\* label ids of the calls that pass logits: O, B-PHONE, I-PHONE, B-CITY, unknown
ScoredLabelIds == {0, 3, 4, 9, 99}

----------------------------------------------------------------------------
(* Pure helpers *)

\* min written as max
MaxConf(a, b) == IF a >= b THEN a ELSE b

\* min(current_confidence, confidence)
Min(a, b) == IF a <= b THEN a ELSE b

\* ID2LABEL.get(int(lid), "O")
GetLabel(lid) == IF lid \in DOMAIN ID2LABEL THEN ID2LABEL[lid] ELSE <<"O">>

\* label.split("-", 1): at most one split, the rest stays joined
Split1(label) ==
    IF Len(label) = 1 THEN <<<<label[1]>>>> ELSE <<<<label[1]>>, Tail(label)>>

\* len(zip(offsets, label_ids))
ZipLen == IF Len(offsets) <= Len(label_ids) THEN Len(offsets) ELSE Len(label_ids)

tok_start == offsets[idx + 1][1]
tok_end == offsets[idx + 1][2]
tok_lid == label_ids[idx + 1]
tok_label == GetLabel(tok_lid)
tok_prefix == Split1(tok_label)[1]
tok_ent_type == Split1(tok_label)[2]

IsMarker == tok_start = 0 /\ tok_end = 0

\* logits[idx] and probs[int(lid)] are both in range (Python indexing:
\* a negative index down to -len is in range)
CanIndex ==
    /\ idx + 1 <= Len(logits.rows)
    /\ tok_lid >= -NumLabels
    /\ tok_lid < NumLabels

\* the confidence without logits set to 0.0 instead of 1.0
ConfidenceDefaultsToZero == IF logits.present THEN logits.rows[idx + 1] ELSE 0

\* torch.softmax(logits[idx])[lid].item(), or 1.0 without logits; a row is
\* held as the softmax mass at the predicted index
confidence == IF logits.present THEN logits.rows[idx + 1] ELSE One

CurrentSpan ==
    [start |-> current_start, end |-> current_end,
     label |-> current_label, conf |-> current_confidence]

\* the gate applied inside the decoder, as the docstring of bio_to_spans
\* announces: a PII span below confidence_threshold is not appended
EmitCurrentGated ==
    IF label_is_pii(current_label) /\ current_confidence < confidence_threshold
    THEN spans
    ELSE Append(spans, CurrentSpan)

\* spans.append((current_start, current_end, current_label, current_confidence))
EmitCurrent == Append(spans, CurrentSpan)

\* the body reaches the label dispatch: not a marker, confidence computed
Reaches ==
    /\ pc = "loop"
    /\ idx < ZipLen
    /\ ~IsMarker
    /\ logits.present => CanIndex

----------------------------------------------------------------------------
(* bio_to_spans *)

\* a call without logits (assume-correct mode)
PlainCall ==
    \E n \in 0..MaxLen :
        /\ offsets \in [1..n -> OffsetPairs]
        /\ label_ids \in [1..n -> LabelIds]
        /\ logits = NoLogits

\* a call with one score row per token, as main makes it
ScoredCall ==
    \E n \in 0..MaxLen :
        /\ offsets \in [1..n -> ScoredOffsetPairs]
        /\ label_ids \in [1..n -> ScoredLabelIds]
        /\ logits \in {[present |-> TRUE, rows |-> r] : r \in [1..n -> ConfLevels]}

NoSample == [text |-> "", entities |-> <<>>]

\* generate_data.py has produced nothing: predict.py does not run it
NothingGenerated ==
    /\ location = ""
    /\ city = ""
    /\ name = ""
    /\ choice = 0
    /\ sample = NoSample
    /\ placed = <<>>

\* the locals of one call of bio_to_spans, and of main's loop body around it
FreshLocals ==
    /\ idx = 0
    /\ spans = <<>>
    /\ current_label = NoneLabel
    /\ current_start = NoOffset
    /\ current_end = NoOffset
    /\ current_confidence = One
    /\ pc = "loop"
    /\ raised = "none"
    /\ k = 0
    /\ ents = <<>>
    /\ cur_tokens = {}
    /\ span_tokens = <<>>

Init ==
    /\ text = "ring alice"
    /\ PlainCall \/ ScoredCall
    /\ confidence_threshold \in Thresholds
    /\ pending = <<>>
    /\ results = <<>>
    /\ FreshLocals
    /\ NothingGenerated

\* the marker handled like an O token: it closes the open span
SkipMarkerClosesSpan ==
    /\ pc = "loop"
    /\ idx < ZipLen
    /\ IsMarker
    /\ IF current_label # NoneLabel
       THEN /\ spans' = EmitCurrent
            /\ span_tokens' = Append(span_tokens, cur_tokens)
            /\ current_label' = NoneLabel
            /\ cur_tokens' = {}
       ELSE UNCHANGED <<spans, span_tokens, current_label, cur_tokens>>
    /\ idx' = idx + 1
    /\ UNCHANGED <<generator, batch, inputs, current_start, current_end, current_confidence,
                   pc, raised, k, ents>>

\* if start == 0 and end == 0: continue
SkipMarker ==
    /\ pc = "loop"
    /\ idx < ZipLen
    /\ IsMarker
    /\ idx' = idx + 1
    /\ UNCHANGED <<generator, batch, inputs, decoder, pc, raised, k, ents>>

\* logits[idx] or probs[int(lid)] is out of range
RaiseIndexError ==
    /\ pc = "loop"
    /\ idx < ZipLen
    /\ ~IsMarker
    /\ logits.present
    /\ ~CanIndex
    /\ pc' = "error"
    /\ raised' = "IndexError"
    /\ UNCHANGED <<generator, batch, inputs, decoder, idx, k, ents>>

\* LabelO without "current_label = None": the span is emitted and stays open
LabelOKeepsOpen ==
    /\ Reaches
    /\ tok_label = <<"O">>
    /\ IF current_label # NoneLabel
       THEN /\ spans' = EmitCurrent
            /\ span_tokens' = Append(span_tokens, cur_tokens)
       ELSE UNCHANGED <<spans, span_tokens>>
    /\ idx' = idx + 1
    /\ UNCHANGED <<generator, batch, inputs, current_label, cur_tokens, current_start,
                   current_end, current_confidence, pc, raised, k, ents>>

\* LabelO without the "if current_label is not None" test
LabelOAlwaysEmits ==
    /\ Reaches
    /\ tok_label = <<"O">>
    /\ spans' = EmitCurrent
    /\ span_tokens' = Append(span_tokens, cur_tokens)
    /\ current_label' = NoneLabel
    /\ cur_tokens' = {}
    /\ idx' = idx + 1
    /\ UNCHANGED <<generator, batch, inputs, current_start, current_end, current_confidence,
                   pc, raised, k, ents>>

\* if label == "O": close the open span, if any
LabelO ==
    /\ Reaches
    /\ tok_label = <<"O">>
    /\ IF current_label # NoneLabel
       THEN /\ spans' = EmitCurrent
            /\ span_tokens' = Append(span_tokens, cur_tokens)
            /\ current_label' = NoneLabel
            /\ cur_tokens' = {}
       ELSE UNCHANGED <<spans, span_tokens, current_label, cur_tokens>>
    /\ idx' = idx + 1
    /\ UNCHANGED <<generator, batch, inputs, current_start, current_end, current_confidence,
                   pc, raised, k, ents>>

\* prefix, ent_type = label.split("-", 1) with a label that has no dash
RaiseValueError ==
    /\ Reaches
    /\ tok_label # <<"O">>
    /\ Len(Split1(tok_label)) # 2
    /\ pc' = "error"
    /\ raised' = "ValueError"
    /\ UNCHANGED <<generator, batch, inputs, decoder, idx, k, ents>>

\* OpenSpan without "current_start = start"
OpenSpanKeepsStart ==
    /\ IF current_label # NoneLabel
       THEN /\ spans' = EmitCurrent
            /\ span_tokens' = Append(span_tokens, cur_tokens)
       ELSE UNCHANGED <<spans, span_tokens>>
    /\ current_label' = tok_ent_type
    /\ current_start' = IF current_start = NoOffset THEN tok_start ELSE current_start
    /\ current_end' = tok_end
    /\ current_confidence' = confidence
    /\ cur_tokens' = {idx}

\* OpenSpan with "current_end = start"
OpenSpanEndIsStart ==
    /\ IF current_label # NoneLabel
       THEN /\ spans' = EmitCurrent
            /\ span_tokens' = Append(span_tokens, cur_tokens)
       ELSE UNCHANGED <<spans, span_tokens>>
    /\ current_label' = tok_ent_type
    /\ current_start' = tok_start
    /\ current_end' = tok_start
    /\ current_confidence' = confidence
    /\ cur_tokens' = {idx}

\* the assignments shared by a B token and an orphan I token
OpenSpan ==
    /\ IF current_label # NoneLabel
       THEN /\ spans' = EmitCurrent
            /\ span_tokens' = Append(span_tokens, cur_tokens)
       ELSE UNCHANGED <<spans, span_tokens>>
    /\ current_label' = tok_ent_type
    /\ current_start' = tok_start
    /\ current_end' = tok_end
    /\ current_confidence' = confidence
    /\ cur_tokens' = {idx}

\* a B of the open span's own type merged into it like an I
LabelBMergesSameType ==
    /\ Reaches
    /\ tok_label # <<"O">>
    /\ Len(Split1(tok_label)) = 2
    /\ tok_prefix = <<"B">>
    /\ IF current_label = tok_ent_type
       THEN /\ current_end' = tok_end
            /\ current_confidence' = Min(current_confidence, confidence)
            /\ cur_tokens' = cur_tokens \cup {idx}
            /\ UNCHANGED <<spans, span_tokens, current_label, current_start>>
       ELSE OpenSpan
    /\ idx' = idx + 1
    /\ UNCHANGED <<generator, batch, inputs, pc, raised, k, ents>>

\* if prefix == "B"
LabelB ==
    /\ Reaches
    /\ tok_label # <<"O">>
    /\ Len(Split1(tok_label)) = 2
    /\ tok_prefix = <<"B">>
    /\ OpenSpan
    /\ idx' = idx + 1
    /\ UNCHANGED <<generator, batch, inputs, pc, raised, k, ents>>

\* LabelIExtend with "current_end = max(current_end, end)"
LabelIExtendMaxEnd ==
    /\ Reaches
    /\ tok_label # <<"O">>
    /\ Len(Split1(tok_label)) = 2
    /\ tok_prefix = <<"I">>
    /\ current_label = tok_ent_type
    /\ current_end' = IF tok_end > current_end THEN tok_end ELSE current_end
    /\ current_confidence' = Min(current_confidence, confidence)
    /\ cur_tokens' = cur_tokens \cup {idx}
    /\ idx' = idx + 1
    /\ UNCHANGED <<generator, batch, inputs, spans, span_tokens, current_label, current_start,
                   pc, raised, k, ents>>

\* a matching I treated like a B: the open span is closed and a new one opened
LabelIExtendOpensNew ==
    /\ Reaches
    /\ tok_label # <<"O">>
    /\ Len(Split1(tok_label)) = 2
    /\ tok_prefix = <<"I">>
    /\ current_label = tok_ent_type
    /\ OpenSpan
    /\ idx' = idx + 1
    /\ UNCHANGED <<generator, batch, inputs, pc, raised, k, ents>>

\* LabelIExtend that also moves the start to the token
LabelIExtendMovesStart ==
    /\ Reaches
    /\ tok_label # <<"O">>
    /\ Len(Split1(tok_label)) = 2
    /\ tok_prefix = <<"I">>
    /\ current_label = tok_ent_type
    /\ current_start' = tok_start
    /\ current_end' = tok_end
    /\ current_confidence' = Min(current_confidence, confidence)
    /\ cur_tokens' = cur_tokens \cup {idx}
    /\ idx' = idx + 1
    /\ UNCHANGED <<generator, batch, inputs, spans, span_tokens, current_label,
                   pc, raised, k, ents>>

\* LabelIExtend without "current_end = end"
LabelIExtendKeepsEnd ==
    /\ Reaches
    /\ tok_label # <<"O">>
    /\ Len(Split1(tok_label)) = 2
    /\ tok_prefix = <<"I">>
    /\ current_label = tok_ent_type
    /\ current_confidence' = Min(current_confidence, confidence)
    /\ cur_tokens' = cur_tokens \cup {idx}
    /\ idx' = idx + 1
    /\ UNCHANGED <<generator, batch, inputs, spans, span_tokens, current_label,
                   current_start, current_end, pc, raised, k, ents>>

\* elif prefix == "I" and current_label == ent_type
LabelIExtend ==
    /\ Reaches
    /\ tok_label # <<"O">>
    /\ Len(Split1(tok_label)) = 2
    /\ tok_prefix = <<"I">>
    /\ current_label = tok_ent_type
    /\ current_end' = tok_end
    /\ current_confidence' = Min(current_confidence, confidence)
    /\ cur_tokens' = cur_tokens \cup {idx}
    /\ idx' = idx + 1
    /\ UNCHANGED <<generator, batch, inputs, spans, span_tokens, current_label, current_start,
                   pc, raised, k, ents>>

\* an I of another type merged into the open span: no type comparison
LabelIOrphanExtendsOther ==
    /\ Reaches
    /\ tok_label # <<"O">>
    /\ Len(Split1(tok_label)) = 2
    /\ tok_prefix = <<"I">>
    /\ current_label # tok_ent_type
    /\ IF current_label = NoneLabel
       THEN OpenSpan
       ELSE /\ current_end' = tok_end
            /\ current_confidence' = Min(current_confidence, confidence)
            /\ cur_tokens' = cur_tokens \cup {idx}
            /\ UNCHANGED <<spans, span_tokens, current_label, current_start>>
    /\ idx' = idx + 1
    /\ UNCHANGED <<generator, batch, inputs, pc, raised, k, ents>>

\* strict BIO: an I with no open span is ignored
LabelIOrphanDroppedWhenIdle ==
    /\ Reaches
    /\ tok_label # <<"O">>
    /\ Len(Split1(tok_label)) = 2
    /\ tok_prefix = <<"I">>
    /\ current_label # tok_ent_type
    /\ IF current_label = NoneLabel
       THEN UNCHANGED decoder
       ELSE OpenSpan
    /\ idx' = idx + 1
    /\ UNCHANGED <<generator, batch, inputs, pc, raised, k, ents>>

\* elif prefix == "I" and current_label != ent_type
LabelIOrphan ==
    /\ Reaches
    /\ tok_label # <<"O">>
    /\ Len(Split1(tok_label)) = 2
    /\ tok_prefix = <<"I">>
    /\ current_label # tok_ent_type
    /\ OpenSpan
    /\ idx' = idx + 1
    /\ UNCHANGED <<generator, batch, inputs, pc, raised, k, ents>>

\* a prefix that is neither "B" nor "I": no branch is taken
LabelOtherPrefix ==
    /\ Reaches
    /\ tok_label # <<"O">>
    /\ Len(Split1(tok_label)) = 2
    /\ tok_prefix \notin {<<"B">>, <<"I">>}
    /\ idx' = idx + 1
    /\ UNCHANGED <<generator, batch, inputs, decoder, pc, raised, k, ents>>

\* Flush without the final "if current_label is not None: spans.append(...)"
FlushNoEmit ==
    /\ pc = "loop"
    /\ idx = ZipLen
    /\ pc' = "filter"
    /\ UNCHANGED <<generator, batch, inputs, decoder, idx, raised, k, ents>>

\* after the loop: flush the open span and return spans
Flush ==
    /\ pc = "loop"
    /\ idx = ZipLen
    /\ IF current_label # NoneLabel
       THEN /\ spans' = EmitCurrent
            /\ span_tokens' = Append(span_tokens, cur_tokens)
       ELSE UNCHANGED <<spans, span_tokens>>
    /\ pc' = "filter"
    /\ UNCHANGED <<generator, batch, inputs, idx, current_label, current_start, current_end,
                   current_confidence, cur_tokens, raised, k, ents>>

----------------------------------------------------------------------------
(* main: the sensitivity filter over the decoded spans *)

\* the gate written with <= : a span exactly at the threshold is dropped
DroppedAtThreshold(sp, threshold) == label_is_pii(sp.label) /\ sp.conf <= threshold

\* the comparison turned round: a PII span above the threshold is dropped
DroppedAboveThreshold(sp, threshold) == label_is_pii(sp.label) /\ sp.conf > threshold

\* if label_is_pii(lab) and conf < args.confidence_threshold: continue
Dropped(sp, threshold) == label_is_pii(sp.label) /\ sp.conf < threshold

\* the pii flag taken from the outcome of the gate instead of the registry
EntityFlagFromGate(sp) ==
    [start |-> sp.start, end |-> sp.end, label |-> sp.label,
     pii |-> sp.conf >= confidence_threshold]

Entity(sp) ==
    [start |-> sp.start, end |-> sp.end, label |-> sp.label,
     pii |-> label_is_pii(sp.label)]

FilterDrop ==
    /\ pc = "filter"
    /\ k < Len(spans)
    /\ Dropped(spans[k + 1], confidence_threshold)
    /\ k' = k + 1
    /\ UNCHANGED <<generator, batch, inputs, decoder, idx, pc, raised, ents>>

\* the kept entity put in front of the output list (ents.insert(0, ...))
FilterKeepPrepends ==
    /\ pc = "filter"
    /\ k < Len(spans)
    /\ ~Dropped(spans[k + 1], confidence_threshold)
    /\ ents' = <<Entity(spans[k + 1])>> \o ents
    /\ k' = k + 1
    /\ UNCHANGED <<generator, batch, inputs, decoder, idx, pc, raised>>

FilterKeep ==
    /\ pc = "filter"
    /\ k < Len(spans)
    /\ ~Dropped(spans[k + 1], confidence_threshold)
    /\ ents' = Append(ents, Entity(spans[k + 1]))
    /\ k' = k + 1
    /\ UNCHANGED <<generator, batch, inputs, decoder, idx, pc, raised>>

\* the utterance a result belongs to (it stands for the uid); a result also
\* records the threshold in force and the decoded spans the entities were
\* filtered from
Utterance ==
    [text |-> text, offsets |-> offsets, label_ids |-> label_ids,
     logits |-> logits]

\* results[uid] = ents
Store ==
    /\ pc = "filter"
    /\ k = Len(spans)
    /\ results' = Append(results,
                          [utterance |-> Utterance,
                           threshold |-> confidence_threshold,
                           spans |-> spans, ents |-> ents])
    /\ pc' = "done"
    /\ UNCHANGED <<generator, pending, inputs, decoder, idx, raised, k, ents>>

Next ==
    \/ SkipMarker
    \/ RaiseIndexError
    \/ LabelO
    \/ RaiseValueError
    \/ LabelB
    \/ LabelIExtend
    \/ LabelIOrphan
    \/ LabelOtherPrefix
    \/ Flush
    \/ FilterDrop
    \/ FilterKeep
    \/ Store

Spec == Init /\ [][Next]_vars

----------------------------------------------------------------------------
(* Calls whose streams differ in length *)

RaggedOffsetPairs == {<<0, 0>>, <<0, 4>>, <<5, 10>>}

\* O, B-PHONE, I-CITY, "X-CITY", "JUNK": every id is known to the registry
RaggedLabelIds == {0, 3, 10, 15, 16}

\* offsets, label ids and score rows of independent lengths
RaggedCall ==
    \E no, nl, ng \in 0..MaxLen :
        /\ offsets \in [1..no -> RaggedOffsetPairs]
        /\ label_ids \in [1..nl -> RaggedLabelIds]
        /\ logits \in {NoLogits, [present |-> TRUE, rows |-> [i \in 1..ng |-> 30]]}

InitRagged ==
    /\ text = "ring alice"
    /\ RaggedCall
    /\ confidence_threshold = 50
    /\ pending = <<>>
    /\ results = <<>>
    /\ FreshLocals
    /\ NothingGenerated

SpecRagged == InitRagged /\ [][Next]_vars

----------------------------------------------------------------------------
(* The four-token utterance of the specification's scenario *)

\* O, B-PERSON_NAME, I-PERSON_NAME, "X-CITY", "JUNK", unknown
ScenarioLabelIds == {0, 1, 2, 15, 16, 99}

\* the scenario's offsets and token confidences, under every labelling
ScenarioCall ==
    /\ offsets = <<<<0, 0>>, <<0, 4>>, <<5, 10>>, <<0, 0>>>>
    /\ label_ids \in [1..4 -> ScenarioLabelIds]
    /\ logits = [present |-> TRUE, rows |-> <<100, 90, 80, 100>>]

InitScenario ==
    /\ text = "ring alice"
    /\ ScenarioCall
    /\ confidence_threshold \in {50, 95}
    /\ pending = <<>>
    /\ results = <<>>
    /\ FreshLocals
    /\ NothingGenerated

SpecScenario == InitScenario /\ [][Next]_vars

----------------------------------------------------------------------------
(* main's loop over the utterances of the input file *)

\* the next call keeps current_label, current_start, current_end and
\* current_confidence of the call before, as if they were module state
NextUtteranceKeepsLocals ==
    /\ pc = "done"
    /\ pending # <<>>
    /\ text' = Head(pending).text
    /\ offsets' = Head(pending).offsets
    /\ label_ids' = Head(pending).label_ids
    /\ logits' = Head(pending).logits
    /\ pending' = Tail(pending)
    /\ idx' = 0
    /\ spans' = <<>>
    /\ pc' = "loop"
    /\ k' = 0
    /\ ents' = <<>>
    /\ span_tokens' = <<>>
    /\ UNCHANGED <<generator, confidence_threshold, results, raised, current_label,
                   current_start, current_end, current_confidence, cur_tokens>>

\* for line in f: the next utterance is tokenized and bio_to_spans is called
\* on it with fresh locals; ents = []
NextUtterance ==
    /\ pc = "done"
    /\ pending # <<>>
    /\ text' = Head(pending).text
    /\ offsets' = Head(pending).offsets
    /\ label_ids' = Head(pending).label_ids
    /\ logits' = Head(pending).logits
    /\ pending' = Tail(pending)
    /\ idx' = 0
    /\ spans' = <<>>
    /\ current_label' = NoneLabel
    /\ current_start' = NoOffset
    /\ current_end' = NoOffset
    /\ current_confidence' = One
    /\ pc' = "loop"
    /\ k' = 0
    /\ ents' = <<>>
    /\ cur_tokens' = {}
    /\ span_tokens' = <<>>
    /\ UNCHANGED <<generator, confidence_threshold, results, raised>>

BatchOffsetPairs == {<<0, 0>>, <<0, 4>>, <<5, 10>>}

\* O, B-PHONE, I-PHONE, "X-CITY", "JUNK"
BatchLabelIds == {0, 3, 4, 15, 16}

MaxBatchLen == 2

\* the utterances a batch is made of: up to MaxBatchLen tokens without
\* scores, and one scored token labelled B-PHONE or with an unknown id
BatchUtterances ==
    UNION {
        {[text |-> "ring alice", offsets |-> o, label_ids |-> l,
          logits |-> NoLogits] :
            o \in [1..n -> BatchOffsetPairs], l \in [1..n -> BatchLabelIds]} :
        n \in 0..MaxBatchLen}
    \cup {[text |-> "mail bobby", offsets |-> <<<<0, 4>>>>, label_ids |-> <<l>>,
           logits |-> [present |-> TRUE, rows |-> <<30>>]] : l \in {3, 99}}

\* an input file of three utterances: x, another utterance y, then x again
InitBatch ==
    /\ \E x, y \in BatchUtterances :
        /\ text = x.text
        /\ offsets = x.offsets
        /\ label_ids = x.label_ids
        /\ logits = x.logits
        /\ pending = <<y, x>>
    /\ confidence_threshold = 50
    /\ results = <<>>
    /\ FreshLocals
    /\ NothingGenerated

NextBatch == Next \/ NextUtterance

SpecBatch == InitBatch /\ [][NextBatch]_vars

----------------------------------------------------------------------------
(* bio_to_spans called again on the same streams *)

MaxCalls == 2

\* O, B-PHONE, I-PHONE, B-CITY, "X-CITY", "JUNK"
CallsLabelIds == {0, 3, 4, 9, 15, 16}

\* up to MaxBatchLen tokens, without scores or with one score row per token
CallsStreams ==
    \E n \in 0..MaxBatchLen :
        /\ offsets \in [1..n -> BatchOffsetPairs]
        /\ \/ /\ label_ids \in [1..n -> CallsLabelIds]
              /\ logits = NoLogits
           \/ /\ label_ids \in [1..n -> ScoredLabelIds]
              /\ logits \in {[present |-> TRUE, rows |-> r] :
                                r \in [1..n -> ConfLevels]}

InitCalls ==
    /\ text \in Texts
    /\ CallsStreams
    /\ confidence_threshold \in Thresholds
    /\ pending = <<>>
    /\ results = <<>>
    /\ FreshLocals
    /\ NothingGenerated

\* bio_to_spans(text, offsets, pred_ids, logits=logits,
\*              confidence_threshold=...) called once more with the same
\* offsets, label ids and logits, any text and any threshold, followed by
\* the caller's filter; results keeps the outcome of every call
CallAgain ==
    /\ pc = "done"
    /\ pending = <<>>
    /\ Len(results) < MaxCalls
    /\ text' \in Texts
    /\ confidence_threshold' \in Thresholds
    /\ idx' = 0
    /\ spans' = <<>>
    /\ current_label' = NoneLabel
    /\ current_start' = NoOffset
    /\ current_end' = NoOffset
    /\ current_confidence' = One
    /\ pc' = "loop"
    /\ k' = 0
    /\ ents' = <<>>
    /\ cur_tokens' = {}
    /\ span_tokens' = <<>>
    /\ UNCHANGED <<generator, offsets, label_ids, logits, batch, raised>>

NextCalls == Next \/ CallAgain

SpecCalls == InitCalls /\ [][NextCalls]_vars

----------------------------------------------------------------------------
(* data/generate_data.py: the templates that place a location and a city *)

\* some of LOCATIONS, CITIES, FIRST_NAMES and LAST_NAMES
Locations == {"thane west", "navi mumbai", "powai", "mg road"}
Cities == {"thane", "mumbai", "pune", "delhi"}
Names == {"dev das", "priya sharma"}

\* the f-strings of gen_location_city: the text before the location,
\* between the location and the city, and after the city
LocationCityTemplates ==
    << <<"the office is near ", " in ", " today">>,
       <<"i live in ", " area of ", "">>,
       <<"our branch is at ", " in ", "">>,
       <<"meeting point is ", " in ", " tomorrow">>,
       <<"address is ", " ", " please note">> >>

\* the f-strings of gen_name_location_city: the text before the name,
\* between name and location, between location and city, after the city
NameLocationCityTemplates ==
    << <<"my name is ", " i work in ", " in ", "">>,
       <<"this is ", " from ", " area ", "">>,
       <<"i am ", " my office is in ", " ", "">>,
       <<"hello ", " here based in ", " near ", "">> >>

\* str.find: the lowest 0-based index where sub occurs in s, -1 if none
Find(s, sub) ==
    LET hits == {i \in 0..(Len(s) - Len(sub)) :
                    SubSeq(s, i + 1, i + Len(sub)) = sub}
    IN  IF hits = {} THEN -1
        ELSE CHOOSE i \in hits : \A j \in hits : i <= j

\* x_start = text.find(x); if x_start >= 0: entities.append({...})
Found(s, value, label) ==
    IF Find(s, value) >= 0
    THEN <<[start |-> Find(s, value), end |-> Find(s, value) + Len(value),
            label |-> label]>>
    ELSE <<>>

\* the range the f-string gives a value that follows the text before
Placed(before, value, label) ==
    [start |-> Len(before), end |-> Len(before) + Len(value), label |-> label]

\* predict.py is not running
PredictIdle ==
    /\ text = ""
    /\ offsets = <<>>
    /\ label_ids = <<>>
    /\ logits = NoLogits
    /\ confidence_threshold = One
    /\ idx = 0
    /\ spans = <<>>
    /\ current_label = NoneLabel
    /\ current_start = NoOffset
    /\ current_end = NoOffset
    /\ current_confidence = One
    /\ pc = "done"
    /\ raised = "none"
    /\ k = 0
    /\ ents = <<>>
    /\ pending = <<>>
    /\ results = <<>>
    /\ cur_tokens = {}
    /\ span_tokens = <<>>

predict == <<batch, inputs, decoder, idx, pc, raised, k, ents>>

\* the outcomes of random.choice
InitGenerator ==
    /\ location \in Locations
    /\ city \in Cities
    /\ name \in Names
    /\ choice \in DOMAIN LocationCityTemplates
    /\ sample = NoSample
    /\ placed = <<>>
    /\ PredictIdle

gen_location_city ==
    /\ sample = NoSample
    /\ choice \in DOMAIN LocationCityTemplates
    /\ LET t == LocationCityTemplates[choice]
           s == t[1] \o location \o t[2] \o city \o t[3]
       IN  /\ sample' = [text |-> s,
                         entities |-> Found(s, location, "LOCATION")
                                        \o Found(s, city, "CITY")]
           /\ placed' = <<Placed(t[1], location, "LOCATION"),
                          Placed(t[1] \o location \o t[2], city, "CITY")>>
    /\ UNCHANGED <<location, city, name, choice, predict>>

gen_name_location_city ==
    /\ sample = NoSample
    /\ choice \in DOMAIN NameLocationCityTemplates
    /\ LET t == NameLocationCityTemplates[choice]
           s == t[1] \o name \o t[2] \o location \o t[3] \o city \o t[4]
       IN  /\ sample' = [text |-> s,
                         entities |-> Found(s, name, "PERSON_NAME")
                                        \o Found(s, location, "LOCATION")
                                        \o Found(s, city, "CITY")]
           /\ placed' = <<Placed(t[1], name, "PERSON_NAME"),
                          Placed(t[1] \o name \o t[2], location, "LOCATION"),
                          Placed(t[1] \o name \o t[2] \o location \o t[3],
                                 city, "CITY")>>
    /\ UNCHANGED <<location, city, name, choice, predict>>

NextGenerator == gen_location_city \/ gen_name_location_city

SpecGenerator == InitGenerator /\ [][NextGenerator]_vars

----------------------------------------------------------------------------
(* Vocabulary of the properties *)

\* bio_to_spans has returned its list
Returned == pc \in {"filter", "done"}

\* zip position i (0-based) holds a token that is not the (0,0) marker
NonMarker(i) == offsets[i + 1] # <<0, 0>>

ZipPositions == 0..(ZipLen - 1)

LabelAt(i) == GetLabel(label_ids[i + 1])

\* the label at i is a well-formed B-<type> / I-<type> tag
IsBeginAt(i) == Len(LabelAt(i)) >= 2 /\ LabelAt(i)[1] = "B"
IsInsideAt(i) == Len(LabelAt(i)) >= 2 /\ LabelAt(i)[1] = "I"
TypeAt(i) == Tail(LabelAt(i))

\* the confidence the Confidence Extractor gives the token at i
TokenConf(i) == IF logits.present THEN logits.rows[i + 1] ELSE One

\* the smallest confidence among the tokens at the positions S
MinConf(S) == CHOOSE c \in {TokenConf(i) : i \in S} :
                  \A i \in S : c <= TokenConf(i)

\* every non-marker token covers at least one character, and the tokens
\* come in text order without overlapping
OffsetsWellFormed ==
    /\ \A i \in ZipPositions :
          NonMarker(i) => offsets[i + 1][1] < offsets[i + 1][2]
    /\ \A i, j \in ZipPositions :
          (i < j /\ NonMarker(i) /\ NonMarker(j))
              => offsets[i + 1][2] <= offsets[j + 1][1]

Ordered(s) ==
    \A i \in 1..(Len(s) - 1) :
        s[i].end <= s[i + 1].start /\ s[i].start < s[i + 1].start

----------------------------------------------------------------------------
(* C1: order and non-overlap of the returned spans *)

\* C1 as stated: for every input, the returned spans are strictly ordered
\* by start and pairwise non-overlapping.
C1_OrderedForAllInputs == Returned => Ordered(spans)

\* C1 amended: when every non-marker token has start < end and the tokens
\* come in text order without overlapping, the spans emitted so far (and so
\* the returned list) are strictly ordered by start and non-overlapping.
C1_OrderedForWellFormedOffsets == OffsetsWellFormed => Ordered(spans)

\* two spans were returned for well-formed offsets
C1_Witness == Returned /\ OffsetsWellFormed /\ Len(spans) = 2

----------------------------------------------------------------------------
(* C2: no empty or inverted span *)

\* C2 as stated: every emitted span has end > start, for every input.
C2_NonEmptyForAllInputs == \A i \in 1..Len(spans) : spans[i].end > spans[i].start

\* C2 amended: when every non-marker token has start < end and the tokens
\* come in text order, every emitted span, and the open span, has end > start.
C2_NonEmptyForWellFormedOffsets ==
    OffsetsWellFormed =>
        /\ \A i \in 1..Len(spans) : spans[i].end > spans[i].start
        /\ current_label # NoneLabel => current_end > current_start

\* a span merged from two well-formed tokens was returned
C2_Witness ==
    /\ Returned
    /\ OffsetsWellFormed
    /\ \E i \in 1..Len(spans) : Cardinality(span_tokens[i]) = 2

----------------------------------------------------------------------------
(* C3: a span's confidence is the minimum over its own tokens *)

\* the positions S are one entity-labelled run of type t: its first token
\* opens it (B, or an I), every later one is a matching I
IsRun(S, t) ==
    /\ S # {}
    /\ S \subseteq ZipPositions
    /\ \A i \in S :
          /\ NonMarker(i)
          /\ TypeAt(i) = t
          /\ IsBeginAt(i) \/ IsInsideAt(i)
          /\ (\E j \in S : j < i) => IsInsideAt(i)

\* C3: every emitted span is made of one run of tokens of its type, and its
\* confidence is the minimum of exactly those tokens' confidences; the same
\* holds of the open span.
C3_MinConfidence ==
    /\ Len(span_tokens) = Len(spans)
    /\ \A i \in 1..Len(spans) :
          /\ IsRun(span_tokens[i], spans[i].label)
          /\ spans[i].conf = MinConf(span_tokens[i])
    /\ (pc = "loop" /\ current_label # NoneLabel) =>
          /\ IsRun(cur_tokens, current_label)
          /\ current_confidence = MinConf(cur_tokens)

\* a span of three tokens with confidences 0.5, 0.3, 0.5 was returned with 0.3
C3_Witness ==
    /\ Returned
    /\ logits.present
    /\ \E i \in 1..Len(spans) :
          /\ span_tokens[i] = {0, 1, 2}
          /\ logits.rows = <<50, 30, 50>>
          /\ spans[i].conf = 30

----------------------------------------------------------------------------
(* C4: the sensitivity filter keeps a span iff it is not PII or its
   confidence reaches the threshold *)

C4_Keep(sp) == ~label_is_pii(sp.label) \/ sp.conf >= confidence_threshold

Core(x) == <<x.start, x.end, x.label>>

Cores(s) == [i \in 1..Len(s) |-> Core(s[i])]

\* C4: after the filter has looked at the first k decoded spans, the output
\* holds exactly those of them that are not PII or have confidence >=
\* confidence_threshold, in order; at the end this is the whole list.
C4_FilterKeepsIff ==
    Returned =>
        /\ Cores(ents) = Cores(SelectSeq(SubSeq(spans, 1, k), C4_Keep))
        /\ pc = "done" => k = Len(spans)

\* one run dropped a PII span below the threshold, kept a PII span exactly
\* at the threshold and kept a non-PII span below the threshold
C4_Witness ==
    /\ pc = "done"
    /\ Len(ents) = 2
    /\ \E a, b, c \in 1..Len(spans) :
          /\ label_is_pii(spans[a].label)
          /\ spans[a].conf < confidence_threshold
          /\ label_is_pii(spans[b].label)
          /\ spans[b].conf = confidence_threshold
          /\ ~label_is_pii(spans[c].label)
          /\ spans[c].conf < confidence_threshold

----------------------------------------------------------------------------
(* C5: flush at end of stream *)

HasNonMarker == \E i \in ZipPositions : NonMarker(i)

\* the last token of the stream that is not a marker
LastTok ==
    CHOOSE i \in ZipPositions :
        NonMarker(i) /\ \A j \in ZipPositions : NonMarker(j) => j <= i

EndsOpen == HasNonMarker /\ (IsBeginAt(LastTok) \/ IsInsideAt(LastTok))

\* C5: when the last non-marker token of the stream carries a B-/I- label,
\* the returned list ends with the span that token belongs to: the span
\* that was open at the end, with that token's type and end offset.
C5_FlushAtEnd ==
    (Returned /\ EndsOpen) =>
        /\ Len(spans) >= 1
        /\ spans[Len(spans)] = CurrentSpan
        /\ spans[Len(spans)].label = TypeAt(LastTok)
        /\ spans[Len(spans)].end = offsets[LastTok + 1][2]
        /\ LastTok \in span_tokens[Len(spans)]

\* a stream ended on an entity token after an earlier span was closed
C5_Witness == Returned /\ EndsOpen /\ Len(spans) = 2 /\ LastTok = ZipLen - 1

----------------------------------------------------------------------------
(* Vocabulary of the per-token transitions *)

\* the loop is about to read the token at position idx
AtToken == pc = "loop" /\ idx < ZipLen

\* the iteration ran to its end: nothing was raised
Processed == pc' = "loop" /\ idx' = idx + 1

\* the decoder goes to Open(type of the token, its start, end, confidence)
OpensAtToken ==
    /\ current_label' = TypeAt(idx)
    /\ current_start' = offsets[idx + 1][1]
    /\ current_end' = offsets[idx + 1][2]
    /\ current_confidence' = TokenConf(idx)

DecoderUnchanged ==
    UNCHANGED <<spans, current_label, current_start, current_end,
                current_confidence>>

----------------------------------------------------------------------------
(* C6: a B token closes the open span, whatever its type *)

\* C6: whenever a non-marker B-X token is processed while a span is open,
\* the open span is appended to the list exactly as it was (same start, end,
\* type and confidence) and the decoder goes to
\* Open(X, token.start, token.end, token.confidence), also when the open
\* span has type X.
C6_BeginClosesOpen ==
    [][(AtToken /\ NonMarker(idx) /\ IsBeginAt(idx)
            /\ current_label # NoneLabel /\ Processed)
        => (spans' = Append(spans, CurrentSpan) /\ OpensAtToken)]_vars

\* B-CITY, B-PHONE, B-PHONE: the CITY span was closed at (0,4) by the first
\* B-PHONE, and that PHONE span was closed by the second B-PHONE
C6_Witness ==
    /\ pc = "loop"
    /\ idx = 3
    /\ label_ids = <<9, 3, 3>>
    /\ offsets = <<<<0, 4>>, <<5, 10>>, <<5, 10>>>>
    /\ Len(spans) = 2
    /\ Core(spans[1]) = <<0, 4, <<"CITY">>>>
    /\ Core(spans[2]) = <<5, 10, <<"PHONE">>>>
    /\ current_label = <<"PHONE">>
    /\ cur_tokens = {2}

----------------------------------------------------------------------------
(* C7: an I token with no open span opens one *)

\* C7: whenever a non-marker I-X token is processed while the decoder is
\* Idle, nothing is emitted and the decoder goes to
\* Open(X, token.start, token.end, token.confidence), as for a B-X token.
C7_OrphanInsideOpens ==
    [][(AtToken /\ NonMarker(idx) /\ IsInsideAt(idx)
            /\ current_label = NoneLabel /\ Processed)
        => (spans' = spans /\ OpensAtToken)]_vars

\* a lone I-PHONE was returned as a PHONE span starting at its token
C7_Witness ==
    /\ Returned
    /\ ZipLen = 1
    /\ label_ids = <<4>>
    /\ offsets = <<<<5, 10>>>>
    /\ Len(spans) = 1
    /\ Core(spans[1]) = <<5, 10, <<"PHONE">>>>

----------------------------------------------------------------------------
(* C8: nothing to decode gives the empty list *)

\* every token of the stream is a marker or carries the label O
NothingLabelled ==
    \A i \in ZipPositions : ~NonMarker(i) \/ LabelAt(i) = <<"O">>

\* C8: an all-O sequence, an empty sequence and a sequence of markers only
\* (and any mix of O tokens and markers) return the empty span list.
C8_EmptyWhenNothingLabelled == (Returned /\ NothingLabelled) => spans = <<>>

\* three O tokens that are not markers were decoded to the empty list
C8_Witness ==
    /\ Returned
    /\ ZipLen = 3
    /\ \A i \in ZipPositions : NonMarker(i) /\ label_ids[i + 1] = 0
    /\ spans = <<>>

----------------------------------------------------------------------------
(* C9: marker tokens are skipped *)

\* C9: a step from a state whose next token has the offsets (0,0) only
\* moves to the next token: it raises nothing and leaves the emitted list
\* and the decoder state (open or not, type, start, end, confidence)
\* unchanged, whatever label id the token carries.
C9_MarkerSkipped ==
    [][(AtToken /\ ~NonMarker(idx)) => (Processed /\ DecoderUnchanged)]_vars

\* a marker carrying a B label was passed while a span was open, and the
\* span was then extended by the next token
C9_Witness ==
    /\ idx = 3
    /\ offsets[2] = <<0, 0>>
    /\ IsBeginAt(1)
    /\ spans = <<>>
    /\ cur_tokens = {0, 2}
    /\ current_label # NoneLabel

----------------------------------------------------------------------------
(* C10: label strings that are not BIO tags *)

\* the label at i is neither O nor B-<type> nor I-<type>
UnparseableAt(i) ==
    /\ LabelAt(i) # <<"O">>
    /\ ~(Len(LabelAt(i)) >= 2 /\ LabelAt(i)[1] \in {"B", "I"})

\* C10 as stated: a non-marker token whose label is not O, B-<type> or
\* I-<type> is handled like O: nothing is raised, an open span is emitted
\* and the decoder goes Idle, and an Idle decoder is left as it is.
C10_UnparseableTreatedAsO ==
    [][(AtToken /\ NonMarker(idx) /\ UnparseableAt(idx))
        => /\ Processed
           /\ IF current_label # NoneLabel
              THEN spans' = Append(spans, CurrentSpan)
                   /\ current_label' = NoneLabel
              ELSE DecoderUnchanged]_vars

----------------------------------------------------------------------------
(* C11: label ids the registry does not know *)

\* C11 as stated: a non-marker token whose label id is not in the registry
\* is handled like O and nothing is raised, with or without logits: an open
\* span is emitted and the decoder goes Idle, an Idle decoder is left alone.
C11_UnknownIdTreatedAsO ==
    [][(AtToken /\ NonMarker(idx) /\ label_ids[idx + 1] \notin DOMAIN ID2LABEL)
        => /\ Processed
           /\ IF current_label # NoneLabel
              THEN spans' = Append(spans, CurrentSpan)
                   /\ current_label' = NoneLabel
              ELSE DecoderUnchanged]_vars

----------------------------------------------------------------------------
(* C12: streams of different lengths *)

\* the length of the shortest stream that was passed
ShortestLen ==
    IF logits.present /\ Len(logits.rows) < ZipLen
    THEN Len(logits.rows) ELSE ZipLen

\* C12 as stated: the decoder never indexes out of bounds, and when it
\* returns it has consumed exactly as many tokens as the shortest of the
\* offsets, the label ids and (if passed) the score rows holds.
C12_DecodesOverShortest ==
    /\ raised # "IndexError"
    /\ Returned => idx = ShortestLen

----------------------------------------------------------------------------
(* C13: a threshold outside [0,1] *)

ThresholdInvalid == confidence_threshold < 0 \/ confidence_threshold > One

\* C13 as stated: with a confidence_threshold outside [0,1] the filter is
\* refused at its entry: no span is filtered and no result is produced.
C13_InvalidThresholdRejected ==
    ThresholdInvalid => (k = 0 /\ pc # "done" /\ results = <<>>)

----------------------------------------------------------------------------
(* C14: without logits every confidence is 1.0 *)

\* C14: when logits is None, every emitted span and the open span have
\* confidence exactly 1.0.
C14_NoLogitsConfidenceOne ==
    ~logits.present =>
        /\ \A i \in 1..Len(spans) : spans[i].conf = One
        /\ current_label # NoneLabel => current_confidence = One

\* without logits, a span merged from two tokens and a second span were
\* returned
C14_Witness ==
    /\ Returned
    /\ ~logits.present
    /\ Len(spans) = 2
    /\ \E i \in 1..2 : Cardinality(span_tokens[i]) = 2

----------------------------------------------------------------------------
(* C15: the scenario, decode then filter *)

PersonSpan ==
    [start |-> 0, end |-> 10, label |-> <<"PERSON_NAME">>, conf |-> 80]

PersonEntity ==
    [start |-> 0, end |-> 10, label |-> <<"PERSON_NAME">>, pii |-> TRUE]

\* C15: offsets [(0,0),(0,4),(5,10),(0,0)] labelled
\* [O, B-PERSON_NAME, I-PERSON_NAME, O] with token confidences
\* [1.0, 0.9, 0.8, 1.0] decode to the single span (0, 10, PERSON_NAME, 0.8);
\* at threshold 0.5 the output is that one entity with pii true, at
\* threshold 0.95 the output is empty.
C15_Scenario ==
    (pc = "done" /\ label_ids = <<0, 1, 2, 0>>) =>
        /\ spans = <<PersonSpan>>
        /\ confidence_threshold = 50 => ents = <<PersonEntity>>
        /\ confidence_threshold = 95 => ents = <<>>

\* the scenario ran to its end at threshold 0.5
C15_Witness ==
    /\ pc = "done"
    /\ label_ids = <<0, 1, 2, 0>>
    /\ confidence_threshold = 50
    /\ Len(ents) = 1

----------------------------------------------------------------------------
(* C16: the pii flag of a kept span *)

\* C16: every entity in the output carries pii = label_is_pii(its label),
\* whatever the threshold and the span's confidence.
C16_PiiFlagFromRegistry ==
    /\ Len(ents) <= k
    /\ \A i \in 1..Len(ents) : ents[i].pii = label_is_pii(ents[i].label)

\* a non-PII span below the threshold was kept with pii false next to a PII
\* span kept with pii true
C16_Witness ==
    /\ pc = "done"
    /\ \E i, j \in 1..Len(ents) :
          /\ ents[i].pii /\ ents[i].label = <<"PHONE">>
          /\ ~ents[j].pii /\ ents[j].label = <<"CITY">>
    /\ \E i \in 1..Len(spans) :
          spans[i].label = <<"CITY">> /\ spans[i].conf < confidence_threshold

----------------------------------------------------------------------------
(* C17: no state is carried from one utterance to the next *)

----------------------------------------------------------------------------
(* C18: an I token of another type than the open span *)

\* C18: whenever a non-marker I-X token is processed while a span of
\* another type is open, that span is appended exactly as it was (its end
\* and confidence untouched by the token) and the decoder goes to
\* Open(X, token.start, token.end, token.confidence).
C18_InsideOfOtherTypeClosesOpen ==
    [][(AtToken /\ NonMarker(idx) /\ IsInsideAt(idx)
            /\ current_label # NoneLabel /\ current_label # TypeAt(idx)
            /\ Processed)
        => (spans' = Append(spans, CurrentSpan) /\ OpensAtToken)]_vars

\* B-CITY at 0.5 then I-PHONE at 0.3: the CITY span was emitted as
\* (0, 4, 0.5) and a PHONE span is open at (5, 10, 0.3)
C18_Witness ==
    /\ idx = 2
    /\ label_ids = <<9, 4>>
    /\ logits.present
    /\ spans = <<[start |-> 0, end |-> 4, label |-> <<"CITY">>, conf |-> 50]>>
    /\ CurrentSpan =
          [start |-> 5, end |-> 10, label |-> <<"PHONE">>, conf |-> 30]

----------------------------------------------------------------------------
(* C19: O tokens *)

\* C19: whenever a non-marker O token is processed, an open span is
\* appended once and the decoder goes Idle; with no open span the emitted
\* list and the decoder state stay as they are.
C19_OutsideClosesOnce ==
    [][(AtToken /\ NonMarker(idx) /\ LabelAt(idx) = <<"O">> /\ Processed)
        => IF current_label # NoneLabel
           THEN spans' = Append(spans, CurrentSpan) /\ current_label' = NoneLabel
           ELSE DecoderUnchanged]_vars

\* B-PHONE, O, O: after the second O the list still holds the one span
C19_Witness ==
    /\ idx = 3
    /\ label_ids = <<3, 0, 0>>
    /\ \A i \in ZipPositions : NonMarker(i)
    /\ Len(spans) = 1
    /\ span_tokens = <<{0}>>
    /\ current_label = NoneLabel

----------------------------------------------------------------------------
(* C20: the open span's range under a matching I token *)

\* the token at idx is a non-marker I of the open span's type and is
\* processed
ExtendsOpen ==
    /\ AtToken
    /\ NonMarker(idx)
    /\ IsInsideAt(idx)
    /\ current_label = TypeAt(idx)
    /\ Processed

\* C20 as stated: a matching I token never decreases the open span's end
\* and never changes its start, for every input.
C20_RangeGrowsForAllInputs ==
    [][ExtendsOpen
        => (current_end' >= current_end /\ current_start' = current_start)]_vars

\* C20 amended: a matching I token never changes the open span's start and
\* sets its end to the token's end; when every non-marker token has
\* start < end and the tokens come in text order without overlapping, the
\* end never decreases.
C20_RangeGrowsForWellFormedOffsets ==
    [][ExtendsOpen
        => /\ current_start' = current_start
           /\ current_end' = offsets[idx + 1][2]
           /\ OffsetsWellFormed => current_end' >= current_end]_vars

\* a span opened at (0,4) was extended by a matching I at (5,10)
C20_Witness ==
    /\ OffsetsWellFormed
    /\ idx = 2
    /\ cur_tokens = {0, 1}
    /\ current_start = 0
    /\ current_end = 10

----------------------------------------------------------------------------
(* C21: the decoded list does not depend on the threshold or the text *)

----------------------------------------------------------------------------
(* C22: spans and entity-labelled tokens correspond one to one *)

\* the token at i carries a B-/I- label and is not a marker
EntityToken(i) == NonMarker(i) /\ (IsBeginAt(i) \/ IsInsideAt(i))

\* the tokens before i that set the decoder's state: O, B- and I- tokens
\* that are not markers (markers and other prefixes leave it as it is)
Deciding(i) ==
    {j \in 0..(i - 1) : NonMarker(j) /\ (LabelAt(j) = <<"O">> \/ EntityToken(j))}

\* the type of the span open when the token at i arrives, read off the
\* labels alone
OpenTypeBefore(i) ==
    IF Deciding(i) = {} THEN NoneLabel
    ELSE LET j == CHOOSE m \in Deciding(i) : \A n \in Deciding(i) : n <= m
         IN  IF LabelAt(j) = <<"O">> THEN NoneLabel ELSE TypeAt(j)

\* a B-X token, or an I-X token arriving when no span of type X is open
OpensSpanAt(i) ==
    /\ NonMarker(i)
    /\ IsBeginAt(i) \/ (IsInsideAt(i) /\ OpenTypeBefore(i) # TypeAt(i))

Openers == {i \in ZipPositions : OpensSpanAt(i)}

\* C22: when bio_to_spans returns, the number of spans equals the number of
\* non-marker tokens that open a span, every span holds exactly one such
\* token, and every non-marker token with a B-/I- label is among the tokens
\* of exactly one span.
C22_SpansMatchOpeners ==
    Returned =>
        /\ Len(spans) = Cardinality(Openers)
        /\ Len(span_tokens) = Len(spans)
        /\ \A j \in 1..Len(span_tokens) :
              Cardinality(span_tokens[j] \cap Openers) = 1
        /\ \A i \in ZipPositions :
              EntityToken(i) =>
                  Cardinality({j \in 1..Len(span_tokens) : i \in span_tokens[j]}) = 1

\* B-PHONE, I-PHONE, I-CITY without markers: two openers, two spans, the
\* first made of two tokens
C22_Witness ==
    /\ Returned
    /\ label_ids = <<3, 4, 10>>
    /\ \A i \in ZipPositions : NonMarker(i)
    /\ Openers = {0, 2}
    /\ span_tokens = <<{0, 1}, {2}>>

----------------------------------------------------------------------------
(* C23: where a span's start and end come from *)

FirstOf(S) == CHOOSE i \in S : \A j \in S : i <= j
LastOf(S) == CHOOSE i \in S : \A j \in S : j <= i

\* the largest end offset among the tokens at the positions S
MaxEnd(S) ==
    CHOOSE e \in {offsets[i + 1][2] : i \in S} :
        \A i \in S : offsets[i + 1][2] <= e

\* C23: every emitted span starts at the start offset of the token that
\* opened it and ends at the end offset of the last token merged into it;
\* the same holds of the open span.
C23_RangeFromFirstAndLastToken ==
    /\ Len(span_tokens) = Len(spans)
    /\ \A j \in 1..Len(spans) :
          /\ span_tokens[j] # {}
          /\ spans[j].start = offsets[FirstOf(span_tokens[j]) + 1][1]
          /\ spans[j].end = offsets[LastOf(span_tokens[j]) + 1][2]
    /\ (pc = "loop" /\ current_label # NoneLabel) =>
          /\ cur_tokens # {}
          /\ current_start = offsets[FirstOf(cur_tokens) + 1][1]
          /\ current_end = offsets[LastOf(cur_tokens) + 1][2]

\* B at (5,10) then a matching I at (0,4): the returned span is (5,4), its
\* end is the last token's end and not the largest end seen
C23_Witness ==
    /\ Returned
    /\ offsets = <<<<5, 10>>, <<0, 4>>>>
    /\ span_tokens = <<{0, 1}>>
    /\ spans[1].start = 5
    /\ spans[1].end = 4
    /\ MaxEnd(span_tokens[1]) = 10

----------------------------------------------------------------------------
(* C24: the output is a subsequence of the decoded list *)

\* f maps the positions of e to strictly increasing positions of s that
\* hold the same start, end and label
Embeds(f, e, s) ==
    /\ \A i \in 1..Len(e) : Core(e[i]) = Core(s[f[i]])
    /\ \A i, j \in 1..Len(e) : i < j => f[i] < f[j]

\* C24: at every point of the filter loop the output list embeds, in
\* order and without repetition, into the decoded spans looked at so far,
\* with start, end and label unchanged; and the filter loop leaves the
\* decoded list as it is.
C24_OutputIsSubsequence ==
    /\ [](Returned =>
            \E f \in [1..Len(ents) -> 1..k] : Embeds(f, ents, spans))
    /\ [][(pc = "filter") => (UNCHANGED spans)]_vars

\* three spans were decoded, the second was dropped, and the output holds
\* the first and the third in that order
C24_Witness ==
    /\ pc = "done"
    /\ Len(spans) = 3
    /\ Dropped(spans[2], confidence_threshold)
    /\ Core(spans[1]) # Core(spans[3])
    /\ Cores(ents) = <<Core(spans[1]), Core(spans[3])>>

----------------------------------------------------------------------------
(* C25: the filter is monotone in the threshold *)

SameStreams(r1, r2) ==
    /\ r1.utterance.offsets = r2.utterance.offsets
    /\ r1.utterance.label_ids = r2.utterance.label_ids
    /\ r1.utterance.logits = r2.utterance.logits

NotPii(e) == ~label_is_pii(e.label)

\* C25: of two outcomes for the same streams, the one filtered at the
\* higher (or equal) threshold is an ordered sub-list of the one filtered
\* at the lower threshold, and both hold the same non-PII entities, which
\* are all the non-PII spans that were decoded.
C25_FilterMonotoneInThreshold ==
    \A i, j \in 1..Len(results) :
        (SameStreams(results[i], results[j])
            /\ results[i].threshold <= results[j].threshold)
        => /\ \E f \in [1..Len(results[j].ents) -> 1..Len(results[i].ents)] :
                 Embeds(f, results[j].ents, results[i].ents)
           /\ SelectSeq(results[i].ents, NotPii) = SelectSeq(results[j].ents, NotPii)
           /\ Cores(SelectSeq(results[i].ents, NotPii))
                 = Cores(SelectSeq(results[i].spans, NotPii))

\* PHONE at 0.5 and CITY at 0.3 filtered at 1.1 and then at 0.5: the first
\* outcome holds the CITY alone, the second holds both
C25_Witness ==
    /\ Len(results) = 2
    /\ results[1].threshold = 110
    /\ results[2].threshold = 50
    /\ results[1].utterance.label_ids = <<3, 9>>
    /\ results[1].utterance.logits.rows = <<50, 30>>
    /\ Len(results[1].ents) = 1
    /\ results[1].ents[1].label = <<"CITY">>
    /\ Len(results[2].ents) = 2
    /\ results[2].ents[2] = results[1].ents[1]

----------------------------------------------------------------------------
(* C26: the generator's entities locate the values the template placed *)

Disjoint(a, b) == a.end <= b.start \/ b.end <= a.start

\* C26: in every generated sample the labelled entities are pairwise
\* non-overlapping ranges of the text, and each is the range where the
\* template put the value of its label.
C26_EntitiesLocateInsertedValues ==
    sample # NoSample =>
        /\ \A i, j \in 1..Len(sample.entities) :
              i # j => Disjoint(sample.entities[i], sample.entities[j])
        /\ sample.entities = placed

====
